---- MODULE Spec2Model ----
(***************************************************************************)
(* A model of ytdlp.js, the stream-URL extraction pipeline of musicfree:   *)
(* formatFileSize, httpRequest, extractYtcfg, callEjs, processFormatUrl,   *)
(* extractFormats, downloadFile and main.                                  *)
(*                                                                         *)
(* Strings that the code only passes around are TLA+ strings.  A URL text  *)
(* is the record [def, base, q]: def is FALSE for undefined/null, base is  *)
(* everything before the query and q the query's key/value pairs as they   *)
(* are spelled in the text (percent-escapes included).                     *)
(***************************************************************************)
EXTENDS Integers, Sequences, FiniteSets, TLC

\* ------------------------------------------------------------------ bounds

\* Longest list formats ++ adaptiveFormats of a metadata document.
MaxFormats == 2

\* Most base-1024 digits of a byte count given to formatFileSize.
MaxDigits == 5

\* Most ytcfg.set(...) occurrences of a page.
MaxOccurrences == 2

\* ------------------------------------------------------------ URL strings

Undefined == [def |-> FALSE, base |-> "", q |-> <<>>]

Text(b, query) == [def |-> TRUE, base |-> b, q |-> query]

\* JavaScript truthiness of a string-or-null value: null, undefined and ""
\* are falsy.
Truthy(t) == t.def /\ (t.base # "" \/ t.q # <<>>)

\* `url += "&k=v"`: null is coerced to the text "null" before the append.
AppendParam(t, k, v) ==
    IF t.def THEN [t EXCEPT !.q = Append(@, <<k, v>>)]
    ELSE Text("null", <<<<k, v>>>>)

\* encodeURIComponent on the tokens of the model: "=" is escaped.
encodeURIComponent(v) ==
    CASE v = "S=G" -> "S%3DG"
      [] v = "N=2" -> "N%3D2"
      [] OTHER -> v

\* Percent-decoding as URLSearchParams does when it parses a query.
PercentDecode(t) ==
    CASE t = "S%3DG" -> "S=G"
      [] t = "N%3D2" -> "N=2"
      [] t = "n%31" -> "n1"
      [] OTHER -> t

\* The application/x-www-form-urlencoded serializer of URLSearchParams.
FormEncode(v) ==
    CASE v = "S=G" -> "S%3DG"
      [] v = "N=2" -> "N%3D2"
      [] OTHER -> v

CanonBase == "https://r.example/videoplayback"
UpperBase == "HTTPS://R.EXAMPLE/videoplayback"

\* `new URL(url)` throws unless the text is an absolute URL.
UrlParses(t) == t.def /\ t.base \in {CanonBase, UpperBase}

\* The scheme and host of a parsed URL are lower-cased by the parser.
ParseBase(b) == IF b = UpperBase THEN CanonBase ELSE b

\* urlObj.searchParams: the decoded key/value list of the query.
SearchParams(t) == [i \in DOMAIN t.q |-> <<t.q[i][1], PercentDecode(t.q[i][2])>>]

\* searchParams.get(k): the first value of k, or "" standing for null (both
\* are falsy to the caller).
ParamsGet(ps, k) ==
    IF \E i \in DOMAIN ps : ps[i][1] = k
    THEN ps[CHOOSE i \in DOMAIN ps : ps[i][1] = k /\ \A j \in 1..(i - 1) : ps[j][1] # k][2]
    ELSE ""

RECURSIVE DropKeyFrom(_, _, _)
DropKeyFrom(ps, k, from) ==
    IF ps = <<>> THEN <<>>
    ELSE IF from <= 0 /\ Head(ps)[1] = k THEN DropKeyFrom(Tail(ps), k, from - 1)
    ELSE <<Head(ps)>> \o DropKeyFrom(Tail(ps), k, from - 1)

\* searchParams.append(k, v) in place of set: the old values stay.
ParamsAppend(ps, k, v) == Append(ps, <<k, v>>)

\* searchParams.set(k, v): the first k takes the value, later ones are
\* removed; appended when k is absent.
ParamsSet(ps, k, v) ==
    IF \E i \in DOMAIN ps : ps[i][1] = k
    THEN LET first == CHOOSE i \in DOMAIN ps : ps[i][1] = k /\ \A j \in 1..(i - 1) : ps[j][1] # k
             set == [ps EXCEPT ![first] = <<k, v>>]
         IN  DropKeyFrom(set, k, first)
    ELSE Append(ps, <<k, v>>)

\* urlObj.toString() after the search params changed: the canonical base and
\* the whole list serialized again.
UrlToString(b, ps) ==
    Text(ParseBase(b), [i \in DOMAIN ps |-> <<ps[i][1], FormEncode(ps[i][2])>>])

\* ------------------------------------------------------------ the Decoder

\* What one execSync of the ejs tool can do.
NoCall == [kind |-> "none", tok |-> ""]
SigOutcomes ==
    {[kind |-> "token", tok |-> "S=G"], [kind |-> "token", tok |-> ""],
     [kind |-> "absent", tok |-> ""], [kind |-> "exception", tok |-> ""],
     [kind |-> "timeout", tok |-> ""]}
NOutcomes ==
    {[kind |-> "token", tok |-> "N=2"], [kind |-> "token", tok |-> "n1"],
     [kind |-> "token", tok |-> ""],
     [kind |-> "absent", tok |-> ""], [kind |-> "exception", tok |-> ""],
     [kind |-> "timeout", tok |-> ""]}

\* callEjs: the token data[value] when the tool ran and printed a result
\* holding it; null (here "") when execSync threw (exception, timeout), the
\* output was no JSON or no result, or the result lacks the value.
callEjs(outcome) == IF outcome.kind = "token" THEN outcome.tok ELSE ""

decryptSignature(outcome) == callEjs(outcome)

decryptNParam(outcome) == callEjs(outcome)

\* --------------------------------------------------------- formatFileSize

\* A byte count is written in base 1024, most significant digit first and
\* with no leading zero (0 is <<0>>): dividing by 1024 is exact in a double,
\* and moves the last digit of the integer part into the fraction.
Kibi == 1024

units == <<"B", "KB", "MB", "GB">>

\* A size argument: absent (undefined), a number, or a decimal string as the
\* metadata document carries it.  An empty string has digits <<>>.
NoBytes == [kind |-> "absent", digits |-> <<>>]

\* `!bytes`: undefined, the number 0 and the empty string are falsy; the
\* string "0" is not.
BytesFalsy(bytes) ==
    \/ bytes.kind = "absent"
    \/ bytes.kind = "num" /\ bytes.digits = <<0>>
    \/ bytes.kind = "str" /\ bytes.digits = <<>>

\* parseInt: the number itself, or the number a decimal string spells.
parseInt(bytes) == bytes.digits

RECURSIVE IntValue(_)
IntValue(ds) ==
    IF ds = <<>> THEN 0 ELSE IntValue(SubSeq(ds, 1, Len(ds) - 1)) * Kibi + ds[Len(ds)]

\* size >= 1024 on the digits of the integer part (no leading zero).
AtLeastKibi(int) == Len(int) >= 2

\* The loop of lines 62-65 on (integer digits, fraction digits).
RECURSIVE ScaleLoop(_, _, _)
ScaleLoop(int, frac, unitIndex) ==
    IF AtLeastKibi(int) /\ unitIndex < Len(units) - 1
    THEN ScaleLoop(SubSeq(int, 1, Len(int) - 1), <<int[Len(int)]>> \o frac, unitIndex + 1)
    ELSE [int |-> int, frac |-> frac, unitIndex |-> unitIndex]

\* frac * 100 by long multiplication in base 1024, from the last digit:
\* <<carry, digits>> with carry the integer part of the product.
RECURSIVE TimesHundred(_)
TimesHundred(frac) ==
    IF frac = <<>> THEN <<0, <<>>>>
    ELSE LET rest == TimesHundred(Tail(frac))
             t == Head(frac) * 100 + rest[1]
         IN  <<t \div Kibi, <<t % Kibi>> \o rest[2]>>

\* Number.prototype.toFixed(2): the integer n with n / 100 nearest to the
\* exact value, the larger n on a tie; as <<whole part, two decimals>>.
toFixed2(int, frac) ==
    LET p == TimesHundred(frac)
        up == IF p[2] # <<>> /\ 2 * p[2][1] >= Kibi THEN 1 ELSE 0
        c == p[1] + up
    IN  IF c = 100 THEN <<IntValue(int) + 1, 0>> ELSE <<IntValue(int), c>>

\* The text `${whole}.${cents} ${unit}` as a record; "Unknown" has no number.
UnknownSize == [whole |-> 0, cents |-> 0, unit |-> "Unknown"]

SizeText(fixed, unit) == [whole |-> fixed[1], cents |-> fixed[2], unit |-> unit]

\* formatFileSize with the loop bound `unitIndex < units.length`: the loop
\* runs past the last unit, whose name is then undefined.
RECURSIVE ScaleLoopPastEnd(_, _, _)
ScaleLoopPastEnd(int, frac, unitIndex) ==
    IF AtLeastKibi(int) /\ unitIndex < Len(units)
    THEN ScaleLoopPastEnd(SubSeq(int, 1, Len(int) - 1), <<int[Len(int)]>> \o frac, unitIndex + 1)
    ELSE [int |-> int, frac |-> frac, unitIndex |-> unitIndex]

formatFileSizePastEnd(bytes) ==
    IF BytesFalsy(bytes) THEN UnknownSize
    ELSE LET r == ScaleLoopPastEnd(parseInt(bytes), <<>>, 0)
         IN  SizeText(toFixed2(r.int, r.frac),
                      IF r.unitIndex < Len(units) THEN units[r.unitIndex + 1] ELSE "undefined")

formatFileSize(bytes) ==
    IF BytesFalsy(bytes) THEN UnknownSize
    ELSE LET r == ScaleLoop(parseInt(bytes), <<>>, 0)
         IN  SizeText(toFixed2(r.int, r.frac), units[r.unitIndex + 1])

\* ------------------------------------------------------- processFormatUrl

\* format.signatureCipher is a query string; the model holds what
\* URLSearchParams gives for its three fields: url (Undefined for null),
\* s and sp ("" when the field is missing or empty).
NoCipher == [def |-> FALSE, url |-> Undefined, s |-> "", sp |-> ""]

Cipher(u, s, sp) == [def |-> TRUE, url |-> u, s |-> s, sp |-> sp]

\* SignatureStage with the `return null` of line 432 left out: a failed
\* signature decode goes on with the unsigned url.
SignatureStageNoDrop(format, playerJsPath, sigOut) ==
    IF ~Truthy(format.url) /\ format.signatureCipher.def
    THEN LET c == format.signatureCipher
             sp == IF c.sp # "" THEN c.sp ELSE "signature"
         IN  IF c.s # "" /\ playerJsPath
             THEN LET decryptedSig == decryptSignature(sigOut)
                  IN  IF decryptedSig # ""
                      THEN [ret |-> FALSE, called |-> TRUE,
                            url |-> AppendParam(c.url, sp, encodeURIComponent(decryptedSig))]
                      ELSE [ret |-> FALSE, called |-> TRUE, url |-> c.url]
             ELSE [ret |-> FALSE, called |-> FALSE, url |-> c.url]
    ELSE [ret |-> FALSE, called |-> FALSE, url |-> format.url]

\* Lines 415-435: the url after the signatureCipher branch.  ret = TRUE is
\* the `return null` of line 432; called tells whether the Decoder ran.
SignatureStage(format, playerJsPath, sigOut) ==
    IF ~Truthy(format.url) /\ format.signatureCipher.def
    THEN LET c == format.signatureCipher
             sp == IF c.sp # "" THEN c.sp ELSE "signature"
         IN  IF c.s # "" /\ playerJsPath
             THEN LET decryptedSig == decryptSignature(sigOut)
                  IN  IF decryptedSig # ""
                      THEN [ret |-> FALSE, called |-> TRUE,
                            url |-> AppendParam(c.url, sp, encodeURIComponent(decryptedSig))]
                      ELSE [ret |-> TRUE, called |-> TRUE, url |-> Undefined]
             ELSE [ret |-> FALSE, called |-> FALSE, url |-> c.url]
    ELSE [ret |-> FALSE, called |-> FALSE, url |-> format.url]

\* NParamStage with the `if (decryptedN)` of line 446 left out: the n
\* parameter is set to whatever the Decoder gave.
NParamStageSetsAlways(url, playerJsPath, nOut) ==
    IF ~UrlParses(url) THEN [called |-> FALSE, url |-> url]
    ELSE LET ps == SearchParams(url)
             n == ParamsGet(ps, "n")
         IN  IF n # "" /\ playerJsPath
             THEN [called |-> TRUE,
                   url |-> UrlToString(url.base, ParamsSet(ps, "n", decryptNParam(nOut)))]
             ELSE [called |-> FALSE, url |-> url]

\* Lines 440-458: the n parameter.  new URL throwing is caught and leaves the
\* url as it was.
NParamStage(url, playerJsPath, nOut) ==
    IF ~UrlParses(url) THEN [called |-> FALSE, url |-> url]
    ELSE LET ps == SearchParams(url)
             n == ParamsGet(ps, "n")
         IN  IF n # "" /\ playerJsPath
             THEN LET decryptedN == decryptNParam(nOut)
                  IN  IF decryptedN # ""
                      THEN [called |-> TRUE,
                            url |-> UrlToString(url.base, ParamsSet(ps, "n", decryptedN))]
                      ELSE [called |-> TRUE, url |-> url]
             ELSE [called |-> FALSE, url |-> url]

\* processFormatUrl: the url, or Undefined for null, with the Decoder calls
\* made on the way.
processFormatUrl(format, playerJsPath, sigOut, nOut) ==
    LET st == SignatureStage(format, playerJsPath, sigOut)
    IN  IF st.ret \/ ~Truthy(st.url)
        THEN [url |-> Undefined, sig |-> IF st.called THEN sigOut ELSE NoCall, n |-> NoCall]
        ELSE LET nt == NParamStage(st.url, playerJsPath, nOut)
             IN  [url |-> nt.url, sig |-> IF st.called THEN sigOut ELSE NoCall,
                  n |-> IF nt.called THEN nOut ELSE NoCall]

\* --------------------------------------------------------- extractFormats

\* A mimeType is the sequence of its pieces, so that includes() is membership.
AudioMp4 == <<"audio/", "mp4", "; codecs=\"mp4a.40.2\"">>
VideoMp4 == <<"video/", "mp4", "; codecs=\"avc1.42001E\"">>

Includes(mimeType, piece) == \E i \in DOMAIN mimeType : mimeType[i] = piece

RawFormat(itag, mimeType, contentLength, url, cipher) ==
    [itag |-> itag, mimeType |-> mimeType, contentLength |-> contentLength,
     url |-> url, signatureCipher |-> cipher]

\* The entry pushed at lines 490-506 (the fields copied through unchanged
\* are represented by itag, mimeType and contentLength).
ResolvedFormat(format, url) ==
    [itag |-> format.itag, mimeType |-> format.mimeType,
     contentLength |-> format.contentLength,
     filesizeStr |-> formatFileSize(format.contentLength), url |-> url]

VARIABLES
    xpc,              \* extractFormats: "idle", "loop", "returned", "threw"
    playerJsPath,     \* TRUE: a path was passed; FALSE: undefined
    streamingData,    \* [def, formats, adaptiveFormats]
    formats,          \* the local list formats ++ adaptiveFormats
    fIdx,             \* index of the next format of the loop
    processedFormats, \* the catalog being built
    kept,             \* for each catalog entry, the index of its RawFormat
    calls             \* for each format done, the Decoder outcomes it used

fvars == <<xpc, playerJsPath, streamingData, formats, fIdx, processedFormats, kept, calls>>

\* Lines 466-478.
ExtractFormatsEnter ==
    /\ xpc = "idle"
    /\ IF ~streamingData.def
       THEN xpc' = "threw" /\ formats' = <<>>
       ELSE /\ xpc' = "loop"
            /\ formats' = streamingData.formats \o streamingData.adaptiveFormats
    /\ fIdx' = 1
    /\ processedFormats' = <<>>
    /\ kept' = <<>>
    /\ calls' = <<>>
    /\ UNCHANGED <<playerJsPath, streamingData>>

\* ProcessFormat with the `if (url)` of line 489 left out: every format is
\* pushed.
ProcessFormatNoFilter ==
    /\ xpc = "loop"
    /\ fIdx <= Len(formats)
    /\ \E sigOut \in SigOutcomes, nOut \in NOutcomes :
         LET format == formats[fIdx]
             r == processFormatUrl(format, playerJsPath, sigOut, nOut)
         IN  /\ calls' = Append(calls, [sig |-> r.sig, n |-> r.n])
             /\ processedFormats' = Append(processedFormats, ResolvedFormat(format, r.url))
             /\ kept' = Append(kept, fIdx)
    /\ fIdx' = fIdx + 1
    /\ UNCHANGED <<xpc, playerJsPath, streamingData, formats>>

\* One iteration of the loop of lines 480-508.
ProcessFormat ==
    /\ xpc = "loop"
    /\ fIdx <= Len(formats)
    /\ \E sigOut \in SigOutcomes, nOut \in NOutcomes :
         LET format == formats[fIdx]
             r == processFormatUrl(format, playerJsPath, sigOut, nOut)
         IN  /\ calls' = Append(calls, [sig |-> r.sig, n |-> r.n])
             /\ IF Truthy(r.url)
                THEN /\ processedFormats' = Append(processedFormats, ResolvedFormat(format, r.url))
                     /\ kept' = Append(kept, fIdx)
                ELSE UNCHANGED <<processedFormats, kept>>
    /\ fIdx' = fIdx + 1
    /\ UNCHANGED <<xpc, playerJsPath, streamingData, formats>>

\* Line 510.
ExtractFormatsReturn ==
    /\ xpc = "loop"
    /\ fIdx > Len(formats)
    /\ xpc' = "returned"
    /\ UNCHANGED <<playerJsPath, streamingData, formats, fIdx, processedFormats, kept, calls>>

\* ---- inputs of extractFormats

IdQuery == <<<<"id", "7">>>>
NQuery == <<<<"id", "7">>, <<"n", "n1">>>>

DirectUrl == Text(CanonBase, IdQuery)
ThrottledUrl == Text(CanonBase, NQuery)
EscapedUrl == Text(UpperBase, <<<<"n", "n%31">>, <<"n", "n1">>>>)
RelativeUrl == Text("/videoplayback", NQuery)
EmptyUrl == Text("", <<>>)

FullCipher == Cipher(ThrottledUrl, "s1", "sig")

Ciphers ==
    {NoCipher, FullCipher, Cipher(Undefined, "", ""), Cipher(DirectUrl, "", ""),
     Cipher(Undefined, "s1", ""), Cipher(DirectUrl, "s1", "")}

UrlFields ==
    {<<u, NoCipher>> : u \in {DirectUrl, ThrottledUrl, EscapedUrl, RelativeUrl}}
    \cup {<<Undefined, c>> : c \in Ciphers}
    \cup {<<EmptyUrl, NoCipher>>, <<EmptyUrl, FullCipher>>, <<ThrottledUrl, FullCipher>>}

OneMiB == [kind |-> "str", digits |-> <<1, 0, 0>>]

RawFormats ==
    {RawFormat(140, AudioMp4, OneMiB, f[1], f[2]) : f \in UrlFields}
    \cup {RawFormat(18, VideoMp4, NoBytes, f[1], f[2]) :
            f \in {<<DirectUrl, NoCipher>>, <<Undefined, FullCipher>>, <<Undefined, NoCipher>>}}

RECURSIVE SeqsUpTo(_, _)
SeqsUpTo(S, n) ==
    IF n = 0 THEN {<<>>}
    ELSE LET shorter == SeqsUpTo(S, n - 1)
         IN  shorter \cup {Append(q, x) : q \in {r \in shorter : Len(r) = n - 1}, x \in S}

StreamingDatas ==
    {[def |-> FALSE, formats |-> <<>>, adaptiveFormats |-> <<>>]}
    \cup UNION {{[def |-> TRUE, formats |-> SubSeq(l, 1, k),
                  adaptiveFormats |-> SubSeq(l, k + 1, Len(l))] : k \in 0..Len(l)} :
                l \in SeqsUpTo(RawFormats, MaxFormats)}

FormatsInit ==
    /\ xpc = "idle"
    /\ playerJsPath \in BOOLEAN
    /\ streamingData \in StreamingDatas
    /\ formats = <<>>
    /\ fIdx = 1
    /\ processedFormats = <<>>
    /\ kept = <<>>
    /\ calls = <<>>

\* ------------------------------------------- formatFileSize as a call

VARIABLES
    bytes,     \* the argument of formatFileSize
    sizeStr,   \* its result
    spc        \* "call", "returned"

svars == <<bytes, sizeStr, spc>>

NoSizeYet == [whole |-> 0, cents |-> 0, unit |-> ""]

\* The digits a byte count is made of in the model: the ends of the range,
\* the tie 128/1024 = 0.125 and the half.
Digits == {0, 1, 128, 512, 1023}

ByteCounts == {ds \in SeqsUpTo(Digits, MaxDigits) : ds # <<>> /\ (ds[1] # 0 \/ Len(ds) = 1)}

SizeArguments ==
    {NoBytes, [kind |-> "str", digits |-> <<>>]}
    \cup {[kind |-> k, digits |-> ds] : k \in {"num", "str"}, ds \in ByteCounts}

SizeInit ==
    /\ bytes \in SizeArguments
    /\ sizeStr = NoSizeYet
    /\ spc = "call"

SizeIdle ==
    /\ bytes = NoBytes
    /\ sizeStr = NoSizeYet
    /\ spc = "idle"

\* Lines 57-67.
FormatFileSize ==
    /\ spc = "call"
    /\ sizeStr' = formatFileSize(bytes)
    /\ spc' = "returned"
    /\ UNCHANGED bytes

\* ----------------------------------------------------------- extractYtcfg

\* A page is the sequence of its ytcfg.set({...}); occurrences, each an
\* object text: its style says how the text is written and pairs are its
\* key/value pairs in order.
\*   "json"  {"K":"v"}   keys and values double-quoted
\*   "js"    {K:'v'}     bare keys, single-quoted values
\*   "junk"  {"K":"v",}  double-quoted, with a trailing comma
Occurrence(style, pairs) == [style |-> style, pairs |-> pairs]

\* Whether a value's text holds a word character followed by a colon, which
\* the second replace of line 164 rewrites.
HasWordColon(v) == v = "b:c"

\* JSON.parse(match[1]) succeeds (line 159).
StrictParses(occ) == occ.style = "json"

\* JSON.parse of the text after .replace(/'/g, '"').replace(/(\w+):/g,
\* '"$1":') succeeds (lines 164-165): the bare keys and single quotes become
\* JSON, unless a value is broken by the second replace; a trailing comma
\* stays.
FixedParses(occ) ==
    /\ occ.style = "js"
    /\ \A i \in DOMAIN occ.pairs : ~HasWordColon(occ.pairs[i][2])

EmptyObject == [k \in {} |-> ""]

\* target[key] = value.
SetKey(obj, key, value) ==
    [k \in DOMAIN obj \cup {key} |-> IF k = key THEN value ELSE obj[k]]

\* Object.assign(ytcfg, config), config being the parsed pairs in order.
RECURSIVE ObjectAssign(_, _)
ObjectAssign(obj, pairs) ==
    IF pairs = <<>> THEN obj
    ELSE ObjectAssign(SetKey(obj, Head(pairs)[1], Head(pairs)[2]), Tail(pairs))

\* The while loop of lines 157-169 over the occurrences in page order.
RECURSIVE MergeOccurrences(_, _)
MergeOccurrences(obj, page) ==
    IF page = <<>> THEN obj
    ELSE LET occ == Head(page)
             next == IF StrictParses(occ) \/ FixedParses(occ)
                     THEN ObjectAssign(obj, occ.pairs)
                     ELSE obj
         IN  MergeOccurrences(next, Tail(page))

\* The table of lines 172-178, in order; every pattern is
\* /"KEY"\s*:\s*"([^"]+)"/ for its key.
patterns ==
    <<"INNERTUBE_API_KEY", "INNERTUBE_CLIENT_NAME", "INNERTUBE_CLIENT_VERSION",
      "PLAYER_JS_URL", "VISITOR_DATA">>

\* Whether pair i of an occurrence is text the pattern of `key` matches: the
\* key and a non-empty value, both double-quoted.
PatternMatchesPair(occ, i, key) ==
    /\ occ.style \in {"json", "junk"}
    /\ occ.pairs[i][1] = key
    /\ occ.pairs[i][2] # ""

\* html.match(pattern): the capture of the first match in the page, "" for
\* no match.
RECURSIVE FirstCaptureInPairs(_, _, _)
FirstCaptureInPairs(occ, i, key) ==
    IF i > Len(occ.pairs) THEN ""
    ELSE IF PatternMatchesPair(occ, i, key) THEN occ.pairs[i][2]
    ELSE FirstCaptureInPairs(occ, i + 1, key)

RECURSIVE HtmlMatch(_, _)
HtmlMatch(page, key) ==
    IF page = <<>> THEN ""
    ELSE LET c == FirstCaptureInPairs(Head(page), 1, key)
         IN  IF c # "" THEN c ELSE HtmlMatch(Tail(page), key)

\* `!ytcfg[key]`: the key is missing or its value is falsy.
Falsy(obj, key) == key \notin DOMAIN obj \/ obj[key] = ""

\* The fallback loop without its `if (!ytcfg[key])`: a match always
\* overwrites.
RECURSIVE ApplyPatternsAlways(_, _, _)
ApplyPatternsAlways(obj, page, i) ==
    IF i > Len(patterns) THEN obj
    ELSE LET key == patterns[i]
             m == HtmlMatch(page, key)
         IN  ApplyPatternsAlways(IF m # "" THEN SetKey(obj, key, m) ELSE obj, page, i + 1)

\* The for loop of lines 180-185.
RECURSIVE ApplyPatterns(_, _, _)
ApplyPatterns(obj, page, i) ==
    IF i > Len(patterns) THEN obj
    ELSE LET key == patterns[i]
             m == IF Falsy(obj, key) THEN HtmlMatch(page, key) ELSE ""
         IN  ApplyPatterns(IF m # "" THEN SetKey(obj, key, m) ELSE obj, page, i + 1)

extractYtcfg(page) == ApplyPatterns(MergeOccurrences(EmptyObject, page), page, 1)

VARIABLES
    html,    \* the page given to extractYtcfg
    ytcfg,   \* the Configuration it returned
    ypc      \* "call", "returned"

yvars == <<html, ytcfg, ypc>>

Pairs == {<<k, v>> : k \in {"VISITOR_DATA", "LOGGED_IN"}, v \in {"", "a", "b:c"}}

PairLists ==
    {<<p>> : p \in Pairs}
    \cup {<<<<"LOGGED_IN", "a">>, <<"VISITOR_DATA", "a">>>>,
          <<<<"VISITOR_DATA", "a">>, <<"VISITOR_DATA", "b:c">>>>}

Occurrences == {Occurrence(st, ps) : st \in {"json", "js", "junk"}, ps \in PairLists}

YtcfgInit ==
    /\ html \in SeqsUpTo(Occurrences, MaxOccurrences)
    /\ ytcfg = EmptyObject
    /\ ypc = "call"

YtcfgIdle ==
    /\ html = <<>>
    /\ ytcfg = EmptyObject
    /\ ypc = "idle"

\* Lines 149-194.
ExtractYtcfg ==
    /\ ypc = "call"
    /\ ytcfg' = extractYtcfg(html)
    /\ ypc' = "returned"
    /\ UNCHANGED html

\* ------------------------------------- processFormatUrl, called twice

\* A Decoder as a function: what it answers for each token, every time.
Decoders ==
    [sig : [{"s1"} -> SigOutcomes], n : [{"n1", "N=2"} -> NOutcomes]]

\* The n value processFormatUrl hands to the Decoder for a url.
NArgument(url) == IF UrlParses(url) THEN ParamsGet(SearchParams(url), "n") ELSE ""

Answer(table, token) == IF token \in DOMAIN table THEN table[token] ELSE NoCall

\* processFormatUrl(format, playerJsPath) with the Decoder d behind callEjs.
ResolveWith(format, path, d) ==
    LET sigOut == Answer(d.sig, format.signatureCipher.s)
        st == SignatureStage(format, path, sigOut)
        nOut == Answer(d.n, NArgument(st.url))
    IN  processFormatUrl(format, path, sigOut, nOut).url

VARIABLES
    ipc,       \* "first", "second", "done"
    iFormat,   \* the RawFormat of the first call
    iPath,     \* playerJsPath of both calls
    decoder,   \* the Decoder of both calls
    u1,        \* the url the first call returned
    u2         \* the url processFormatUrl({url: u1}) returned

ivars == <<ipc, iFormat, iPath, decoder, u1, u2>>

IdemInit ==
    /\ ipc = "first"
    /\ iFormat \in RawFormats
    /\ iPath \in BOOLEAN
    /\ decoder \in Decoders
    /\ u1 = Undefined
    /\ u2 = Undefined

IdemIdle ==
    /\ ipc = "idle"
    /\ iFormat = RawFormat(0, <<>>, NoBytes, Undefined, NoCipher)
    /\ iPath = FALSE
    /\ decoder = [sig |-> [t \in {"s1"} |-> NoCall], n |-> [t \in {"n1", "N=2"} |-> NoCall]]
    /\ u1 = Undefined
    /\ u2 = Undefined

\* processFormatUrl(f, playerJsPath).
ResolveFirst ==
    /\ ipc = "first"
    /\ u1' = ResolveWith(iFormat, iPath, decoder)
    /\ ipc' = "second"
    /\ UNCHANGED <<iFormat, iPath, decoder, u2>>

\* processFormatUrl({url: u}, playerJsPath) on the url u that came back.
ResolveSecond ==
    /\ ipc = "second"
    /\ Truthy(u1)
    /\ u2' = ResolveWith(RawFormat(iFormat.itag, iFormat.mimeType, iFormat.contentLength,
                                   u1, NoCipher), iPath, decoder)
    /\ ipc' = "done"
    /\ UNCHANGED <<iFormat, iPath, decoder, u1>>

\* ------------------------------------------------------------ httpRequest

\* A request URL is [host, path]; every URL of the model is https.
Url(h, p) == [host |-> h, path |-> p]

Hosts == {"a.example", "b.example"}
Paths == {"/x", "/y"}
Urls == {Url(h, p) : h \in Hosts, p \in Paths}

\* A Location header: an absolute URL, a root-relative path, or a relative
\* reference such as "next", which new URL() does not accept.
Absolute(u) == [form |-> "absolute", host |-> u.host, path |-> u.path]
RootRelative(p) == [form |-> "root", host |-> "", path |-> p]
Relative == [form |-> "relative", host |-> "", path |-> "next"]

Locations ==
    {Absolute(u) : u \in Urls} \cup {RootRelative(p) : p \in Paths} \cup {Relative}

\* What the server does with a request: a response (status, Location or
\* none), or a failure of the connection.
NoLocation == [form |-> "none", host |-> "", path |-> ""]
Response(status, location) == [kind |-> "response", status |-> status, location |-> location]
NetworkError == [kind |-> "error", status |-> 0, location |-> NoLocation]

Responses ==
    {Response(200, NoLocation), Response(404, NoLocation), Response(304, NoLocation), NetworkError}
    \cup {Response(302, l) : l \in Locations}

\* Line 92.
IsRedirect(r) ==
    /\ r.kind = "response"
    /\ r.status >= 300 /\ r.status < 400
    /\ r.location.form # "none"

\* Lines 93-96: the URL text handed to the recursive call.
RedirectTarget(current, location) ==
    IF location.form = "root" THEN Absolute(Url(current.host, location.path))
    ELSE location

VARIABLES
    server,   \* what the server answers for each URL
    hUrl,     \* the url argument of the innermost httpRequest call
    hpc,      \* "call", "sent", "resolved", "rejected"
    hResult   \* the statusCode resolved with, or what it was rejected with

hvars == <<server, hUrl, hpc, hResult>>

NoResult == [status |-> 0, error |-> ""]

HttpInit ==
    /\ server \in [Urls -> Responses]
    /\ hUrl = Absolute(Url("a.example", "/x"))
    /\ hpc = "call"
    /\ hResult = NoResult

HttpIdle ==
    /\ server = [u \in Urls |-> NetworkError]
    /\ hUrl = NoLocation
    /\ hpc = "idle"
    /\ hResult = NoResult

\* Lines 75-90 and 118-120: the executor.  new URL(url) throws on a relative
\* reference, which rejects the promise; otherwise the request is sent.
HttpCall ==
    /\ hpc = "call"
    /\ IF hUrl.form = "absolute"
       THEN hpc' = "sent" /\ UNCHANGED hResult
       ELSE hpc' = "rejected" /\ hResult' = [status |-> 0, error |-> "Invalid URL"]
    /\ UNCHANGED <<server, hUrl>>

\* Line 118: req.on('error', reject).
HttpRequestError ==
    /\ hpc = "sent"
    /\ server[Url(hUrl.host, hUrl.path)].kind = "error"
    /\ hpc' = "rejected"
    /\ hResult' = [status |-> 0, error |-> "request error"]
    /\ UNCHANGED <<server, hUrl>>

\* Lines 92-98: a 3xx response with a Location header; the call's promise
\* takes the outcome of a new httpRequest to the target.
HttpRedirect ==
    /\ hpc = "sent"
    /\ IsRedirect(server[Url(hUrl.host, hUrl.path)])
    /\ hUrl' = RedirectTarget(hUrl, server[Url(hUrl.host, hUrl.path)].location)
    /\ hpc' = "call"
    /\ UNCHANGED <<server, hResult>>

\* Lines 100-114: any other response is read to its end and resolved with
\* its status code.
HttpResolve ==
    /\ hpc = "sent"
    /\ server[Url(hUrl.host, hUrl.path)].kind = "response"
    /\ ~IsRedirect(server[Url(hUrl.host, hUrl.path)])
    /\ hpc' = "resolved"
    /\ hResult' = [status |-> server[Url(hUrl.host, hUrl.path)].status, error |-> ""]
    /\ UNCHANGED <<server, hUrl>>

\* Line 115: stream.on('error', reject), the body failing while it is read.
HttpStreamError ==
    /\ hpc = "sent"
    /\ server[Url(hUrl.host, hUrl.path)].kind = "response"
    /\ ~IsRedirect(server[Url(hUrl.host, hUrl.path)])
    /\ hpc' = "rejected"
    /\ hResult' = [status |-> 0, error |-> "stream error"]
    /\ UNCHANGED <<server, hUrl>>

\* ------------------------------------------------------------ downloadFile
\* Lines 515-570.  The output path names at most one file (an inode) at a
\* time; a write stream keeps writing to the inode it opened even after the
\* name is removed.  fs.unlink (lines 561, 566) only queues the removal,
\* fs.unlinkSync (line 534) removes at once and throws if there is no file.

MaxRedirects == 1
MaxChunks == 1

VARIABLES
    dpc,        \* position of the innermost downloadFile call
    dCall,      \* how many downloadFile calls were made
    dUrlOk,     \* whether the url of the innermost call parses
    dStreams,   \* per call, its write stream: state and the inode it opened
    dEntry,     \* the inode outputPath names, 0 when no file exists
    dInodes,    \* per inode, the chunks written (each tagged with its call)
    dUnlinks,   \* fs.unlink removals queued and not yet performed
    dChunks,    \* chunks of the current response body handled so far
    dPromise,   \* the promise main awaits: "pending", "resolved", "rejected"
    dDelivered  \* whether the awaiting code has resumed with the outcome

dvars == <<dpc, dCall, dUrlOk, dStreams, dEntry, dInodes, dUnlinks, dChunks,
           dPromise, dDelivered>>

Stream(state, fd) == [state |-> state, fd |-> fd]

\* Lines 562, 567 and 536: reject settles the awaited promise unless it is
\* settled already (an inner call's outcome is passed on by .catch(reject)).
Reject(p) == IF p = "pending" THEN "rejected" ELSE p
Resolve(p) == IF p = "pending" THEN "resolved" ELSE p

\* file.close() (lines 533, 554) on a stream in the given state.
CloseStream(st) ==
    CASE st.state = "opening" -> Stream("closing", st.fd)
      [] st.state = "open" -> Stream("closed", st.fd)
      [] OTHER -> st

Running == dpc \notin {"off", "crashed"}

DownloadInit ==
    /\ dpc = "call"
    /\ dCall = 1
    /\ dUrlOk = TRUE
    /\ dStreams = <<>>
    /\ dEntry \in {0, 1}
    /\ dInodes = IF dEntry = 1 THEN <<<<0>>>> ELSE <<>>
    /\ dUnlinks = 0
    /\ dChunks = 0
    /\ dPromise = "pending"
    /\ dDelivered = FALSE

DownloadIdle ==
    /\ dpc = "off"
    /\ dCall = 0
    /\ dUrlOk = TRUE
    /\ dStreams = <<>>
    /\ dEntry = 0
    /\ dInodes = <<>>
    /\ dUnlinks = 0
    /\ dChunks = 0
    /\ dPromise = "pending"
    /\ dDelivered = FALSE

\* Lines 518-530: the executor.  new URL(url) throws before the stream is
\* created when the url does not parse; otherwise the stream is created
\* (its open is asynchronous) and the request is sent.
DownloadCall ==
    /\ dpc = "call"
    /\ IF dUrlOk
       THEN /\ dStreams' = Append(dStreams, Stream("opening", 0))
            /\ dpc' = "inflight"
            /\ UNCHANGED dPromise
       ELSE /\ dpc' = "failed"
            /\ dPromise' = Reject(dPromise)
            /\ UNCHANGED dStreams
    /\ UNCHANGED <<dCall, dUrlOk, dEntry, dInodes, dUnlinks, dChunks, dDelivered>>

\* Line 522, completing: the open of stream k creates the file or truncates
\* the one the path names.  A stream closed while opening is closed as soon
\* as it is open.
StreamOpen(k) ==
    /\ Running
    /\ dStreams[k].state \in {"opening", "closing"}
    /\ LET fd == IF dEntry = 0 THEN Len(dInodes) + 1 ELSE dEntry IN
       /\ dInodes' = IF dEntry = 0 THEN Append(dInodes, <<>>)
                     ELSE [dInodes EXCEPT ![dEntry] = <<>>]
       /\ dEntry' = fd
       /\ dStreams' = [dStreams EXCEPT ![k] =
              Stream(IF @.state = "opening" THEN "open" ELSE "closed", fd)]
    /\ UNCHANGED <<dpc, dCall, dUrlOk, dUnlinks, dChunks, dPromise, dDelivered>>

\* Lines 565-568: stream k fails, opening or writing.
FileError(k) ==
    /\ Running
    /\ dStreams[k].state \in {"opening", "open"}
    /\ dStreams' = [dStreams EXCEPT ![k] = Stream("errored", @.fd)]
    /\ dUnlinks' = dUnlinks + 1
    /\ dPromise' = Reject(dPromise)
    /\ dpc' = IF k = dCall /\ dpc \in {"inflight", "streaming"} THEN "failed" ELSE dpc
    /\ UNCHANGED <<dCall, dUrlOk, dEntry, dInodes, dChunks, dDelivered>>

\* Lines 560-563: the request fails before a response.
RequestError ==
    /\ dpc = "inflight"
    /\ dUnlinks' = dUnlinks + 1
    /\ dPromise' = Reject(dPromise)
    /\ dpc' = "failed"
    /\ UNCHANGED <<dCall, dUrlOk, dStreams, dEntry, dInodes, dChunks, dDelivered>>

\* Lines 532-536: a 3xx response with a Location header.  unlinkSync throws
\* inside the response callback when the path names no file.
DownloadRedirect ==
    /\ dpc = "inflight"
    /\ dCall <= MaxRedirects
    /\ dStreams' = [dStreams EXCEPT ![dCall] = CloseStream(@)]
    /\ IF dEntry = 0
       THEN dpc' = "crashed" /\ UNCHANGED <<dCall, dUrlOk, dEntry>>
       ELSE /\ dEntry' = 0
            /\ dCall' = dCall + 1
            /\ dUrlOk' \in BOOLEAN
            /\ dpc' = "call"
    /\ UNCHANGED <<dInodes, dUnlinks, dChunks, dPromise, dDelivered>>

\* Lines 538-541: any other response is piped into the stream, whatever
\* its status.
DownloadResponse ==
    /\ dpc = "inflight"
    /\ dpc' = "streaming"
    /\ dChunks' = 0
    /\ UNCHANGED <<dCall, dUrlOk, dStreams, dEntry, dInodes, dUnlinks, dPromise, dDelivered>>

\* Line 541: one chunk of the body written to the inode the stream opened.
DataChunk ==
    /\ dpc = "streaming"
    /\ dChunks < MaxChunks
    /\ dStreams[dCall].state = "open"
    /\ dInodes' = [dInodes EXCEPT ![dStreams[dCall].fd] = Append(@, dCall)]
    /\ dChunks' = dChunks + 1
    /\ UNCHANGED <<dpc, dCall, dUrlOk, dStreams, dEntry, dUnlinks, dPromise, dDelivered>>

\* Lines 541 and 553-557: the body ends, the stream finishes and is closed,
\* the promise is resolved.
DownloadFinish ==
    /\ dpc = "streaming"
    /\ dStreams[dCall].state = "open"
    /\ dStreams' = [dStreams EXCEPT ![dCall] = CloseStream(@)]
    /\ dPromise' = Resolve(dPromise)
    /\ dpc' = "finished"
    /\ UNCHANGED <<dCall, dUrlOk, dEntry, dInodes, dUnlinks, dChunks, dDelivered>>

\* The response fails while it is piped.  No handler is registered on the
\* response (lines 530-558): the error is either thrown as an unhandled
\* 'error' event or the stream simply never finishes.
ResponseError ==
    /\ dpc = "streaming"
    /\ dpc' \in {"crashed", "stalled"}
    /\ UNCHANGED <<dCall, dUrlOk, dStreams, dEntry, dInodes, dUnlinks, dChunks,
                   dPromise, dDelivered>>

\* Lines 561 and 566, completing: a queued removal is performed.
UnlinkDone ==
    /\ Running
    /\ dUnlinks > 0
    /\ dUnlinks' = dUnlinks - 1
    /\ dEntry' = 0
    /\ UNCHANGED <<dpc, dCall, dUrlOk, dStreams, dInodes, dChunks, dPromise, dDelivered>>

\* The awaiting code (main, line 668) resumes with the settled outcome.
Deliver ==
    /\ Running
    /\ dPromise # "pending"
    /\ ~dDelivered
    /\ dDelivered' = TRUE
    /\ UNCHANGED <<dpc, dCall, dUrlOk, dStreams, dEntry, dInodes, dUnlinks, dChunks, dPromise>>

\* -------------------------------------------------------------------- main
\* Lines 574-687.  Each await is one step; the outcome of an httpRequest is
\* drawn from HttpOutcomes.  The catch of lines 682-686 records the error
\* and exits the process.

HttpOutcomes == {"200", "404", "error"}

PlayerPath == "/s/player/p1/base.js"

\* The page: its ytcfg.set occurrences, and which of the player patterns of
\* lines 209-213 and 229 its remaining text matches first.
MainPages ==
    {<<>>,
     <<Occurrence("json", <<<<"VISITOR_DATA", "a">>>>)>>,
     <<Occurrence("json", <<<<"PLAYER_JS_URL", PlayerPath>>>>)>>,
     <<Occurrence("js", <<<<"PLAYER_JS_URL", PlayerPath>>>>)>>}

\* ---- the page text extractPlayerUrl searches (lines 209-213, 229)
\* A text naming a file of a player: optionally the site origin, then
\* /s/player/<id>/ and the rest of the path; esc says the slashes are
\* written \/, amp is "" or says how the & of the text's query is written:
\* \u0026 ("esc") or & ("plain").  The shapes:
\*   "long"   /s/player/<id>/player_ias.vflset/en_US/base.js
\*   "short"  /s/player/<id>/base.js
\*   "css"    /s/player/<id>/www-player.css
PathText(origin, esc, id, shape, amp) ==
    [form |-> "path", origin |-> origin, esc |-> esc, id |-> id, shape |-> shape,
     amp |-> amp, value |-> ""]

\* The text of a player id alone.
IdText(id) ==
    [form |-> "id", origin |-> FALSE, esc |-> FALSE, id |-> id, shape |-> "",
     amp |-> "", value |-> ""]

\* 'https://www.youtube.com' + value (line 203).
OriginPlus(value) ==
    [form |-> "concat", origin |-> TRUE, esc |-> FALSE, id |-> "", shape |-> "",
     amp |-> "", value |-> value]

NoPlayerUrl ==
    [form |-> "none", origin |-> FALSE, esc |-> FALSE, id |-> "", shape |-> "",
     amp |-> "", value |-> ""]

\* A piece of the page holding such a text between double quotes:
\*   "jsUrl"  "jsUrl":"<text>"
\*   "cfg"    "PLAYER_JS_URL":"<text>"
\*   "attr"   src="<text>" or href="<text>"
Fragment(kind, text) == [kind |-> kind, text |-> text]

\* The pieces the ytcfg.set occurrences of a page contribute.
RECURSIVE PairFragments(_, _)
PairFragments(occ, i) ==
    IF i > Len(occ.pairs) THEN <<>>
    ELSE (IF occ.pairs[i][1] = "PLAYER_JS_URL" /\ occ.pairs[i][2] = "/s/player/p1/base.js"
          THEN <<Fragment(IF occ.style = "js" THEN "attr" ELSE "cfg",
                          PathText(FALSE, FALSE, "p1", "short", ""))>>
          ELSE <<>>)
         \o PairFragments(occ, i + 1)

RECURSIVE OccurrenceFragments(_)
OccurrenceFragments(page) ==
    IF page = <<>> THEN <<>>
    ELSE PairFragments(Head(page), 1) \o OccurrenceFragments(Tail(page))

\* The index of the first piece with property P(_), 0 when there is none.
FirstIndex(frags, P(_)) ==
    IF \E i \in DOMAIN frags : P(frags[i])
    THEN CHOOSE i \in DOMAIN frags : P(frags[i]) /\ \A j \in 1..(i - 1) : ~P(frags[j])
    ELSE 0

\* Line 210, /"jsUrl"\s*:\s*"([^"]+)"/.
MatchesJsUrl(f) == f.kind = "jsUrl"
\* Line 211, /"PLAYER_JS_URL"\s*:\s*"([^"]+)"/.
MatchesPlayerJsUrl(f) == f.kind = "cfg"
\* Line 212, /\/s\/player\/([a-zA-Z0-9_-]+)\/[^"]+?base\.js/: plain slashes,
\* and at least one character between the id's slash and base.js.
MatchesBaseJs(f) == ~f.text.esc /\ f.text.shape = "long"
\* Line 229, /\/s\/player\/([a-zA-Z0-9_-]+)\//.
MatchesPlayerId(f) == ~f.text.esc

\* Line 218, match[1] || match[0], for the pattern at index k: each of the
\* three patterns has a group, and a match's group is never empty.
Captured(k, f) == IF k = 3 THEN IdText(f.text.id) ELSE f.text

\* Line 219.
Unescape(t) ==
    IF t.form = "path"
    THEN [t EXCEPT !.esc = FALSE, !.amp = IF @ = "esc" THEN "plain" ELSE @]
    ELSE t

\* Lines 220-222.
ExpandRoot(t) ==
    IF t.form = "path" /\ ~t.esc /\ ~t.origin THEN [t EXCEPT !.origin = TRUE] ELSE t

\* Line 232.
ConstructedUrl(id) == PathText(TRUE, FALSE, id, "long", "")

MaxFragments == 2

PathTexts ==
    {PathText(o, e, id, "long", a) :
        o \in BOOLEAN, e \in BOOLEAN, id \in {"p1", "p2"}, a \in {"", "esc"}}
    \cup {PathText(FALSE, e, "p1", "short", "") : e \in BOOLEAN}
    \cup {PathText(FALSE, FALSE, id, "css", "") : id \in {"p1", "p2"}}

Fragments == {Fragment(k, t) : k \in {"jsUrl", "cfg", "attr"}, t \in PathTexts}

\* The pages of a run of main, apart from their ytcfg.set occurrences.
PagePlayers ==
    {<<>>,
     <<Fragment("jsUrl", PathText(FALSE, TRUE, "p1", "long", ""))>>,
     <<Fragment("attr", PathText(FALSE, FALSE, "p1", "long", ""))>>,
     <<Fragment("attr", PathText(FALSE, FALSE, "p1", "css", ""))>>}

\* The Configurations extractPlayerUrl is given.
Configs ==
    {EmptyObject, SetKey(EmptyObject, "VISITOR_DATA", "a"),
     SetKey(EmptyObject, "PLAYER_JS_URL", ""),
     SetKey(EmptyObject, "PLAYER_JS_URL", "/s/player/p1/base.js")}

NoStatus == [def |-> FALSE, status |-> "", reason |-> ""]
Status(status, reason) == [def |-> TRUE, status |-> status, reason |-> reason]

Statuses == {NoStatus, Status("OK", ""), Status("ERROR", "Video unavailable")}

NoStreamingData == [def |-> FALSE, formats |-> <<>>, adaptiveFormats |-> <<>>]

MainStreamingDatas ==
    {NoStreamingData,
     [def |-> TRUE, formats |-> <<RawFormat(18, VideoMp4, NoBytes, DirectUrl, NoCipher)>>,
      adaptiveFormats |-> <<RawFormat(140, AudioMp4, OneMiB, ThrottledUrl, NoCipher)>>],
     [def |-> TRUE, formats |-> <<>>,
      adaptiveFormats |-> <<RawFormat(140, AudioMp4, OneMiB, RelativeUrl, NoCipher)>>],
     [def |-> TRUE, formats |-> <<>>,
      adaptiveFormats |-> <<RawFormat(140, AudioMp4, OneMiB, Undefined, FullCipher)>>]}

\* The metadata documents the API may answer with.
PlayerResponses ==
    {[playabilityStatus |-> st, streamingData |-> sd] :
        st \in Statuses, sd \in MainStreamingDatas}

VARIABLES
    pc,                 \* the stage main has completed, "failed" or "done"
    failure,            \* the error caught at line 682
    pagePlayer,         \* the page's pieces that name a player file
    playerUrl,          \* what extractPlayerUrl returned: [source, url]
    playabilityStatus   \* of the metadata document

mvars == <<pc, failure, pagePlayer, playerUrl, playabilityStatus>>

NoFailure == [kind |-> "", detail |-> ""]
Failure(kind, detail) == [kind |-> kind, detail |-> detail]

MainInit ==
    /\ pc = "start"
    /\ failure = NoFailure
    /\ pagePlayer \in PagePlayers
    /\ playerUrl = [source |-> "", url |-> NoPlayerUrl]
    /\ playabilityStatus = NoStatus

MainIdle ==
    /\ pc = "off"
    /\ failure = NoFailure
    /\ pagePlayer = <<>>
    /\ playerUrl = [source |-> "", url |-> NoPlayerUrl]
    /\ playabilityStatus = NoStatus

\* Lines 215-226: the loop over the three patterns from index k on; the
\* first pattern that matches returns.
RECURSIVE FirstPattern(_, _)
FirstPattern(frags, k) ==
    IF k > 3 THEN [source |-> "none", url |-> NoPlayerUrl]
    ELSE LET i == CASE k = 1 -> FirstIndex(frags, MatchesJsUrl)
                    [] k = 2 -> FirstIndex(frags, MatchesPlayerJsUrl)
                    [] OTHER -> FirstIndex(frags, MatchesBaseJs)
         IN  IF i # 0
             THEN [source |-> "pattern", url |-> ExpandRoot(Unescape(Captured(k, frags[i])))]
             ELSE FirstPattern(frags, k + 1)

\* Lines 198-238: the value returned and the source it came from; source
\* "none" stands for the throw of line 237.
extractPlayerUrl(frags, cfg) ==
    IF ~Falsy(cfg, "PLAYER_JS_URL")
    THEN [source |-> "ytcfg", url |-> OriginPlus(cfg["PLAYER_JS_URL"])]
    ELSE LET found == FirstPattern(frags, 1)
             i == FirstIndex(frags, MatchesPlayerId)
         IN  IF found.source # "none" THEN found
             ELSE IF i # 0
                  THEN [source |-> "constructed", url |-> ConstructedUrl(frags[i].text.id)]
             ELSE found

\* Line 584 (fetchVideoPage, lines 126-145).
FetchVideoPage ==
    /\ pc = "start"
    /\ \E r \in HttpOutcomes :
         CASE r = "200" -> /\ html' \in MainPages
                           /\ pc' = "pageFetched"
                           /\ UNCHANGED failure
           [] r = "error" -> /\ pc' = "failed"
                             /\ failure' = Failure("TransportError", "page")
                             /\ UNCHANGED html
           [] OTHER -> /\ pc' = "failed"
                       /\ failure' = Failure("HTTP", r)
                       /\ UNCHANGED html
    /\ UNCHANGED <<pagePlayer, playerUrl, playabilityStatus, ytcfg, ypc, fvars, dvars>>

\* Line 587.
HarvestConfig ==
    /\ pc = "pageFetched"
    /\ ytcfg' = extractYtcfg(html)
    /\ pc' = "configHarvested"
    /\ UNCHANGED <<failure, pagePlayer, playerUrl, playabilityStatus, html, ypc, fvars, dvars>>

\* Line 590.
ResolvePlayerUrl ==
    /\ pc = "configHarvested"
    /\ LET found == extractPlayerUrl(OccurrenceFragments(html) \o pagePlayer, ytcfg) IN
       IF found.source = "none"
       THEN /\ pc' = "failed"
            /\ failure' = Failure("NotFound", "Player URL")
            /\ UNCHANGED playerUrl
       ELSE /\ pc' = "playerUrlResolved"
            /\ playerUrl' = found
            /\ UNCHANGED failure
    /\ UNCHANGED <<pagePlayer, playabilityStatus, yvars, fvars, dvars>>

\* Line 593 (downloadPlayerJs, lines 242-261).  httpRequest rejects a url
\* that new URL() does not accept (line 76).
DownloadPlayerJs ==
    /\ pc = "playerUrlResolved"
    /\ \E r \in (IF playerUrl.url.form = "id" THEN {"error"} ELSE HttpOutcomes) :
         CASE r = "200" -> /\ playerJsPath' = TRUE
                           /\ pc' = "playerScriptResolved"
                           /\ UNCHANGED failure
           [] r = "error" -> /\ pc' = "failed"
                             /\ failure' = Failure("TransportError", "player script")
                             /\ UNCHANGED playerJsPath
           [] OTHER -> /\ pc' = "failed"
                       /\ failure' = Failure("HTTP", r)
                       /\ UNCHANGED playerJsPath
    /\ UNCHANGED <<pagePlayer, playerUrl, playabilityStatus, yvars, dvars,
                   xpc, streamingData, formats, fIdx, processedFormats, kept, calls>>

\* Lines 596-610 (fetchPlayerResponseFromApi, lines 311-372).  A body that
\* is not JSON makes JSON.parse throw.  The status check of lines 604-610
\* only writes to the console.
FetchPlayerResponse ==
    /\ pc = "playerScriptResolved"
    /\ \E r \in HttpOutcomes \cup {"malformed"} :
         CASE r = "200" -> /\ \E doc \in PlayerResponses :
                                /\ playabilityStatus' = doc.playabilityStatus
                                /\ streamingData' = doc.streamingData
                           /\ pc' = "metadataFetched"
                           /\ UNCHANGED failure
           [] r = "error" -> /\ pc' = "failed"
                             /\ failure' = Failure("TransportError", "metadata")
                             /\ UNCHANGED <<playabilityStatus, streamingData>>
           [] r = "malformed" -> /\ pc' = "failed"
                                 /\ failure' = Failure("SyntaxError", "metadata")
                                 /\ UNCHANGED <<playabilityStatus, streamingData>>
           [] OTHER -> /\ pc' = "failed"
                       /\ failure' = Failure("HTTP", r)
                       /\ UNCHANGED <<playabilityStatus, streamingData>>
    /\ UNCHANGED <<pagePlayer, playerUrl, yvars, dvars,
                   xpc, playerJsPath, formats, fIdx, processedFormats, kept, calls>>

\* Line 613, the call: extractFormats is entered with the document.
CallExtractFormats ==
    /\ pc = "metadataFetched"
    /\ xpc = "off"
    /\ xpc' = "idle"
    /\ pc' = "extracting"
    /\ UNCHANGED <<failure, pagePlayer, playerUrl, playabilityStatus, yvars, dvars,
                   playerJsPath, streamingData, formats, fIdx, processedFormats, kept, calls>>

\* Line 613, the call returning or throwing.
CatalogBuilt ==
    /\ pc = "extracting"
    /\ xpc \in {"returned", "threw"}
    /\ IF xpc = "returned"
       THEN pc' = "catalogBuilt" /\ UNCHANGED failure
       ELSE pc' = "failed" /\ failure' = Failure("Error", "no streamingData")
    /\ UNCHANGED <<pagePlayer, playerUrl, playabilityStatus, yvars, fvars, dvars>>

\* Lines 624-625 and 657: the entries whose mimeType includes "audio/" and
\* whose itag is 140.
Itag140 ==
    {i \in DOMAIN processedFormats :
        /\ Includes(processedFormats[i].mimeType, "audio/")
        /\ processedFormats[i].itag = 140}

\* Lines 657-669: the first such entry, if any, is downloaded to audio.m4a,
\* which may be there from an earlier run.
StartDownload ==
    /\ pc = "catalogBuilt"
    /\ IF Itag140 = {}
       THEN pc' = "done" /\ UNCHANGED dvars
       ELSE LET audioFormat == processedFormats[CHOOSE i \in Itag140 : \A j \in Itag140 : i <= j]
            IN  /\ pc' = "downloading"
                /\ dpc' = "call"
                /\ dCall' = 1
                /\ dUrlOk' = UrlParses(audioFormat.url)
                /\ dEntry' \in {0, 1}
                /\ dInodes' = IF dEntry' = 1 THEN <<<<0>>>> ELSE <<>>
                /\ UNCHANGED <<dStreams, dUnlinks, dChunks, dPromise, dDelivered>>
    /\ UNCHANGED <<failure, pagePlayer, playerUrl, playabilityStatus, yvars, fvars>>

\* Line 668 resuming: with a rejection, the catch exits the process and
\* nothing queued runs any more.
DownloadSettled ==
    /\ pc = "downloading"
    /\ dpc # "crashed"
    /\ dDelivered
    /\ IF dPromise = "resolved"
       THEN pc' = "done" /\ UNCHANGED <<failure, dpc>>
       ELSE /\ pc' = "failed"
            /\ failure' = Failure("Error", "download")
            /\ dpc' = "off"
    /\ UNCHANGED <<pagePlayer, playerUrl, playabilityStatus, yvars, fvars,
                   dCall, dUrlOk, dStreams, dEntry, dInodes, dUnlinks, dChunks,
                   dPromise, dDelivered>>

\* ---------------------------------------------------------- specifications

vars == <<fvars, svars, yvars, ivars, hvars, dvars, mvars>>

FormatsIdle ==
    /\ xpc = "off"
    /\ playerJsPath = FALSE
    /\ streamingData = [def |-> FALSE, formats |-> <<>>, adaptiveFormats |-> <<>>]
    /\ formats = <<>>
    /\ fIdx = 1
    /\ processedFormats = <<>>
    /\ kept = <<>>
    /\ calls = <<>>

\* extractFormats called on any streamingData, with or without a path.
InitFormats == FormatsInit /\ SizeIdle /\ YtcfgIdle /\ IdemIdle /\ HttpIdle /\ DownloadIdle /\ MainIdle

NextFormats ==
    \/ ExtractFormatsEnter /\ UNCHANGED <<svars, yvars, ivars, hvars, dvars, mvars>>
    \/ ProcessFormat /\ UNCHANGED <<svars, yvars, ivars, hvars, dvars, mvars>>
    \/ ExtractFormatsReturn /\ UNCHANGED <<svars, yvars, ivars, hvars, dvars, mvars>>

SpecFormats == InitFormats /\ [][NextFormats]_vars

\* formatFileSize called on any byte count.
InitSize == SizeInit /\ FormatsIdle /\ YtcfgIdle /\ IdemIdle /\ HttpIdle /\ DownloadIdle /\ MainIdle

NextSize == FormatFileSize /\ UNCHANGED <<fvars, yvars, ivars, hvars, dvars, mvars>>

SpecSize == InitSize /\ [][NextSize]_vars

\* extractYtcfg called on any page.
InitYtcfg == YtcfgInit /\ FormatsIdle /\ SizeIdle /\ IdemIdle /\ HttpIdle /\ DownloadIdle /\ MainIdle

NextYtcfg == ExtractYtcfg /\ UNCHANGED <<fvars, svars, ivars, hvars, dvars, mvars>>

SpecYtcfg == InitYtcfg /\ [][NextYtcfg]_vars

\* processFormatUrl called on a format and again on the url it returned.
InitIdem == IdemInit /\ FormatsIdle /\ SizeIdle /\ YtcfgIdle /\ HttpIdle /\ DownloadIdle /\ MainIdle

NextIdem ==
    \/ ResolveFirst /\ UNCHANGED <<fvars, svars, yvars, hvars, dvars, mvars>>
    \/ ResolveSecond /\ UNCHANGED <<fvars, svars, yvars, hvars, dvars, mvars>>

SpecIdem == InitIdem /\ [][NextIdem]_vars

\* httpRequest against any server.  Node's event loop runs every callback
\* that is due and the server answers every request, so a step that stays
\* possible is taken.
InitHttp == HttpInit /\ FormatsIdle /\ SizeIdle /\ YtcfgIdle /\ IdemIdle /\ DownloadIdle /\ MainIdle

NextHttp ==
    \/ HttpCall /\ UNCHANGED <<fvars, svars, yvars, ivars, dvars, mvars>>
    \/ HttpRequestError /\ UNCHANGED <<fvars, svars, yvars, ivars, dvars, mvars>>
    \/ HttpRedirect /\ UNCHANGED <<fvars, svars, yvars, ivars, dvars, mvars>>
    \/ HttpResolve /\ UNCHANGED <<fvars, svars, yvars, ivars, dvars, mvars>>
    \/ HttpStreamError /\ UNCHANGED <<fvars, svars, yvars, ivars, dvars, mvars>>

SpecHttp == InitHttp /\ [][NextHttp]_vars /\ WF_vars(NextHttp)

\* downloadFile called on a path that names a file or none.
InitDownload == DownloadInit /\ FormatsIdle /\ SizeIdle /\ YtcfgIdle /\ IdemIdle /\ HttpIdle /\ MainIdle

NextDownload ==
    \/ DownloadCall /\ UNCHANGED <<fvars, svars, yvars, ivars, hvars, mvars>>
    \/ (\E k \in 1..Len(dStreams) : StreamOpen(k)) /\ UNCHANGED <<fvars, svars, yvars, ivars, hvars, mvars>>
    \/ (\E k \in 1..Len(dStreams) : FileError(k)) /\ UNCHANGED <<fvars, svars, yvars, ivars, hvars, mvars>>
    \/ RequestError /\ UNCHANGED <<fvars, svars, yvars, ivars, hvars, mvars>>
    \/ DownloadRedirect /\ UNCHANGED <<fvars, svars, yvars, ivars, hvars, mvars>>
    \/ DownloadResponse /\ UNCHANGED <<fvars, svars, yvars, ivars, hvars, mvars>>
    \/ DataChunk /\ UNCHANGED <<fvars, svars, yvars, ivars, hvars, mvars>>
    \/ DownloadFinish /\ UNCHANGED <<fvars, svars, yvars, ivars, hvars, mvars>>
    \/ ResponseError /\ UNCHANGED <<fvars, svars, yvars, ivars, hvars, mvars>>
    \/ UnlinkDone /\ UNCHANGED <<fvars, svars, yvars, ivars, hvars, mvars>>
    \/ Deliver /\ UNCHANGED <<fvars, svars, yvars, ivars, hvars, mvars>>

SpecDownload == InitDownload /\ [][NextDownload]_vars

\* A run of main.
Init == MainInit /\ FormatsIdle /\ SizeIdle /\ YtcfgIdle /\ IdemIdle /\ HttpIdle /\ DownloadIdle

Next ==
    \/ FetchVideoPage /\ UNCHANGED <<svars, ivars, hvars>>
    \/ HarvestConfig /\ UNCHANGED <<svars, ivars, hvars>>
    \/ ResolvePlayerUrl /\ UNCHANGED <<svars, ivars, hvars>>
    \/ DownloadPlayerJs /\ UNCHANGED <<svars, ivars, hvars>>
    \/ FetchPlayerResponse /\ UNCHANGED <<svars, ivars, hvars>>
    \/ CallExtractFormats /\ UNCHANGED <<svars, ivars, hvars>>
    \/ ExtractFormatsEnter /\ UNCHANGED <<svars, yvars, ivars, hvars, dvars, mvars>>
    \/ ProcessFormat /\ UNCHANGED <<svars, yvars, ivars, hvars, dvars, mvars>>
    \/ ExtractFormatsReturn /\ UNCHANGED <<svars, yvars, ivars, hvars, dvars, mvars>>
    \/ CatalogBuilt /\ UNCHANGED <<svars, ivars, hvars>>
    \/ StartDownload /\ UNCHANGED <<svars, ivars, hvars>>
    \/ DownloadCall /\ UNCHANGED <<fvars, svars, yvars, ivars, hvars, mvars>>
    \/ (\E k \in 1..Len(dStreams) : StreamOpen(k)) /\ UNCHANGED <<fvars, svars, yvars, ivars, hvars, mvars>>
    \/ (\E k \in 1..Len(dStreams) : FileError(k)) /\ UNCHANGED <<fvars, svars, yvars, ivars, hvars, mvars>>
    \/ RequestError /\ UNCHANGED <<fvars, svars, yvars, ivars, hvars, mvars>>
    \/ DownloadRedirect /\ UNCHANGED <<fvars, svars, yvars, ivars, hvars, mvars>>
    \/ DownloadResponse /\ UNCHANGED <<fvars, svars, yvars, ivars, hvars, mvars>>
    \/ DataChunk /\ UNCHANGED <<fvars, svars, yvars, ivars, hvars, mvars>>
    \/ DownloadFinish /\ UNCHANGED <<fvars, svars, yvars, ivars, hvars, mvars>>
    \/ ResponseError /\ UNCHANGED <<fvars, svars, yvars, ivars, hvars, mvars>>
    \/ UnlinkDone /\ UNCHANGED <<fvars, svars, yvars, ivars, hvars, mvars>>
    \/ Deliver /\ UNCHANGED <<fvars, svars, yvars, ivars, hvars, mvars>>
    \/ DownloadSettled /\ UNCHANGED <<svars, ivars, hvars>>

Spec == Init /\ [][Next]_vars

\* extractPlayerUrl called on any page and Configuration.
InitPlayerUrl ==
    /\ pc = "configHarvested"
    /\ failure = NoFailure
    /\ pagePlayer \in SeqsUpTo(Fragments, MaxFragments)
    /\ playerUrl = [source |-> "", url |-> NoPlayerUrl]
    /\ playabilityStatus = NoStatus
    /\ html = <<>>
    /\ ytcfg \in Configs
    /\ ypc = "idle"
    /\ FormatsIdle /\ SizeIdle /\ IdemIdle /\ HttpIdle /\ DownloadIdle

NextPlayerUrl == ResolvePlayerUrl /\ UNCHANGED <<svars, ivars, hvars>>

SpecPlayerUrl == InitPlayerUrl /\ [][NextPlayerUrl]_vars

\* The steps the program and its event loop take by themselves: every one
\* except an error of the network or the file system, which may never come.
Progress ==
    \/ HarvestConfig /\ UNCHANGED <<svars, ivars, hvars>>
    \/ ResolvePlayerUrl /\ UNCHANGED <<svars, ivars, hvars>>
    \/ CallExtractFormats /\ UNCHANGED <<svars, ivars, hvars>>
    \/ ExtractFormatsEnter /\ UNCHANGED <<svars, yvars, ivars, hvars, dvars, mvars>>
    \/ ProcessFormat /\ UNCHANGED <<svars, yvars, ivars, hvars, dvars, mvars>>
    \/ ExtractFormatsReturn /\ UNCHANGED <<svars, yvars, ivars, hvars, dvars, mvars>>
    \/ CatalogBuilt /\ UNCHANGED <<svars, ivars, hvars>>
    \/ StartDownload /\ UNCHANGED <<svars, ivars, hvars>>
    \/ DownloadCall /\ UNCHANGED <<fvars, svars, yvars, ivars, hvars, mvars>>
    \/ (\E k \in 1..Len(dStreams) : StreamOpen(k)) /\ UNCHANGED <<fvars, svars, yvars, ivars, hvars, mvars>>
    \/ UnlinkDone /\ UNCHANGED <<fvars, svars, yvars, ivars, hvars, mvars>>
    \/ Deliver /\ UNCHANGED <<fvars, svars, yvars, ivars, hvars, mvars>>
    \/ DownloadSettled /\ UNCHANGED <<svars, ivars, hvars>>

\* A run of main in which every such step that stays possible is taken.
FairSpec == Init /\ [][Next]_vars /\ WF_vars(Progress)

\* ------------------------------------------------------------------ claims

\* The indices of the formats the loop has finished.
Done == 1..Len(calls)

Failed(outcome) ==
    \/ outcome.kind \in {"absent", "exception", "timeout"}
    \/ outcome.kind = "token" /\ outcome.tok = ""

Succeeded(outcome) == outcome.kind = "token" /\ outcome.tok # ""

\* The url a format starts from: its own, or the one its cipher encodes.
SourceUrl(f) == IF Truthy(f.url) THEN f.url ELSE f.signatureCipher.url

\* The text of the first value of key k in a query, "" when there is none.
RawGet(q, k) == ParamsGet(q, k)

EntryOf(i) == processedFormats[CHOOSE j \in DOMAIN kept : kept[j] = i]

InCatalog(i) == \E j \in DOMAIN kept : kept[j] = i

\* C2: extractFormats never throws on a document with streamingData, whatever
\* each Decoder call does; a format whose signature decode fails is dropped
\* and no other format is dropped for it (a format with a url of its own or
\* in its cipher, whose signature decode did not fail, is in the catalog, and
\* the catalog is in input order); a format whose n decode fails is in the
\* catalog and the n value of its url is spelled as it was.
C2_DecodeFailureIsPerFormat ==
    /\ streamingData.def => xpc # "threw"
    /\ \A i \in Done :
         /\ Failed(calls[i].sig) => ~InCatalog(i)
         /\ (~Failed(calls[i].sig) /\ Truthy(SourceUrl(formats[i]))) => InCatalog(i)
         /\ Failed(calls[i].n) =>
              /\ InCatalog(i)
              /\ RawGet(EntryOf(i).url.q, "n") = RawGet(SourceUrl(formats[i]).q, "n")
              /\ RawGet(EntryOf(i).url.q, "n") # ""
    /\ \A j \in DOMAIN kept :
         /\ j > 1 => kept[j - 1] < kept[j]
         /\ processedFormats[j].itag = formats[kept[j]].itag

\* C2 witness: a finished catalog where one format was dropped by a failed
\* signature decode, a later one kept, and one kept after its n decode timed
\* out or threw.
C2_Witness ==
    /\ xpc = "returned"
    /\ \E i, k \in Done :
         /\ i < k
         /\ Failed(calls[i].sig)
         /\ InCatalog(k)
         /\ calls[k].n.kind \in {"timeout", "exception"}

\* In SpecFormats the Decoder is present exactly when a path was passed.
SignedWith(entryUrl, c, outcome) ==
    /\ Succeeded(outcome)
    /\ Truthy(c.url)
    /\ UrlParses(entryUrl)
    /\ ParamsGet(SearchParams(entryUrl), IF c.sp # "" THEN c.sp ELSE "signature") = outcome.tok

\* C5 (as claimed): a catalog entry made from a format with no url and a
\* signatureCipher carries the cipher's url signed with the Decoder's output
\* under the cipher's parameter name; with no Decoder, a failing Decoder, no
\* s token or no url field the format is not in the catalog.
C5_NoUnsignedCipherUrl ==
    \A i \in Done :
        LET f == formats[i]
        IN  (~Truthy(f.url) /\ f.signatureCipher.def /\ InCatalog(i)) =>
                SignedWith(EntryOf(i).url, f.signatureCipher, calls[i].sig)

\* C6: a format with neither url nor signatureCipher is never in the
\* catalog, and passing the catalog's entries through the same filter again
\* (their url, no cipher, any Decoder outcome) drops none of them.
C6_NeitherFieldNeverListed ==
    /\ \A i \in Done :
         (~Truthy(formats[i].url) /\ ~formats[i].signatureCipher.def) => ~InCatalog(i)
    /\ \A j \in DOMAIN processedFormats : \A sigOut \in SigOutcomes, nOut \in NOutcomes :
         LET e == processedFormats[j]
             again == RawFormat(e.itag, e.mimeType, e.contentLength, e.url, NoCipher)
         IN  Truthy(processFormatUrl(again, playerJsPath, sigOut, nOut).url)

\* C6 witness: a finished run that met a format with neither field and kept
\* another format.
C6_Witness ==
    /\ xpc = "returned"
    /\ \E i \in Done : ~Truthy(formats[i].url) /\ ~formats[i].signatureCipher.def
    /\ processedFormats # <<>>

\* The document of the end-to-end scenario: one format, itag 140, audio/mp4,
\* contentLength "1048576", url populated, no signatureCipher.
OneAudioFormat ==
    /\ streamingData.def
    /\ Len(streamingData.formats \o streamingData.adaptiveFormats) = 1
    /\ LET f == (streamingData.formats \o streamingData.adaptiveFormats)[1]
       IN  /\ f.itag = 140
           /\ f.mimeType = AudioMp4
           /\ f.contentLength = OneMiB
           /\ Truthy(f.url)
           /\ ~f.signatureCipher.def

ScenarioCatalog ==
    /\ Len(processedFormats) = 1
    /\ Includes(processedFormats[1].mimeType, "audio/")
    /\ ~Includes(processedFormats[1].mimeType, "video/")
    /\ processedFormats[1].filesizeStr = [whole |-> 1, cents |-> 0, unit |-> "MB"]

\* C8 (as claimed): on that document the catalog is one audio entry of
\* "1.00 MB" whose url is the input url, character for character.
C8_UrlUnchanged ==
    (OneAudioFormat /\ xpc = "returned") =>
        /\ ScenarioCatalog
        /\ processedFormats[1].url = formats[1].url

\* C8 (amended): the same, with the url unchanged unless the Decoder decoded
\* its n parameter; then the entry's n is the decoded token and every other
\* parameter keeps its value.
C8_UrlUnchangedUnlessNDecoded ==
    (OneAudioFormat /\ xpc = "returned") =>
        /\ ScenarioCatalog
        /\ ~Succeeded(calls[1].n) => processedFormats[1].url = formats[1].url
        /\ Succeeded(calls[1].n) =>
             LET old == SearchParams(formats[1].url)
                 new == SearchParams(processedFormats[1].url)
             IN  /\ UrlParses(processedFormats[1].url)
                 /\ ParamsGet(new, "n") = calls[1].n.tok
                 /\ \A i \in DOMAIN old :
                      old[i][1] # "n" => ParamsGet(new, old[i][1]) = ParamsGet(old, old[i][1])

\* C8 witness: the scenario's document, its catalog returned, after an n
\* decode that failed.
C8_Witness ==
    /\ OneAudioFormat
    /\ xpc = "returned"
    /\ Failed(calls[1].n)

\* The digits of a count as a number (counts below 2^20 only).
Below2Pow20(ds) == Len(ds) <= 2

\* floor(100 * v / 1024^k + 1/2) for a count v of k + 1 digits, k <= 1.
RoundedHundredths(ds) ==
    IF Len(ds) = 1 THEN 100 * ds[1]
    ELSE (200 * IntValue(ds) + Kibi) \div (2 * Kibi)

SizeOf(digits) == formatFileSize([kind |-> "num", digits |-> digits])

RECURSIVE StrictMerge(_, _)
StrictMerge(obj, page) ==
    IF page = <<>> THEN obj
    ELSE StrictMerge(IF Head(page).style = "json"
                     THEN ObjectAssign(obj, Head(page).pairs) ELSE obj,
                     Tail(page))

HoldsKey(occ, k) == \E i \in DOMAIN occ.pairs : occ.pairs[i][1] = k

\* A recovered occurrence holding k comes after the last strictly parsed
\* occurrence holding k.
RecoveredLater(k) ==
    \E i \in DOMAIN html :
        /\ FixedParses(html[i])
        /\ HoldsKey(html[i], k)
        /\ \A j \in (i + 1)..Len(html) : ~(html[j].style = "json" /\ HoldsKey(html[j], k))

PatternFills(k) ==
    /\ \E i \in DOMAIN patterns : patterns[i] = k
    /\ HtmlMatch(html, k) # ""

C10_PatternAdds ==
    /\ ypc = "returned"
    /\ "LOGGED_IN" \in DOMAIN StrictMerge(EmptyObject, html)
    /\ "VISITOR_DATA" \notin DOMAIN StrictMerge(EmptyObject, html)
    /\ "VISITOR_DATA" \in DOMAIN ytcfg

\* The second call hands the n value of u1 to the Decoder and gets another
\* token back.
DecodedAgain ==
    /\ iPath
    /\ NArgument(u1) # ""
    /\ Succeeded(Answer(decoder.n, NArgument(u1)))
    /\ Answer(decoder.n, NArgument(u1)).tok # NArgument(u1)

\* C7 (as claimed): processFormatUrl({url: u}) returns exactly the url u that
\* processFormatUrl(f) returned, with the same Decoder.
C7_SecondPassSame == ipc = "done" => u2 = u1

\* C7 (amended): the second pass returns exactly u unless the Decoder decodes
\* the n value u carries into another token; then n is replaced again and
\* the url differs.
C7_SecondPassSameUnlessDecodedAgain == ipc = "done" => (u2 = u1 <=> ~DecodedAgain)

\* C7 witness: the first pass replaced n, and the second pass, whose Decoder
\* fails on the decoded value, returned the same url.
C7_Witness ==
    /\ ipc = "done"
    /\ iPath
    /\ NArgument(u1) = "N=2"
    /\ NArgument(SourceUrl(iFormat)) = "n1"
    /\ Failed(decoder.n["N=2"])
    /\ u2 = u1

\* The server answers every request with a 3xx status and a Location header.
AlwaysRedirects == \A u \in Urls : IsRedirect(server[u])

\* C4 (as claimed): against a server that always redirects, httpRequest
\* ends (with a failure) after a bounded number of hops.
C4_RedirectsEnd == AlwaysRedirects => <>(hpc \in {"resolved", "rejected"})

\* The output path names a file that a write stream of this download
\* created or truncated.
PartialFileLeft == \E k \in DOMAIN dStreams : dStreams[k].fd # 0 /\ dStreams[k].fd = dEntry

\* C3 (as claimed): when downloadFile's rejection is delivered to the
\* awaiting code, no file of this download is left at the output path.
C3_NoPartialFileOnFailure == (dDelivered /\ dPromise = "rejected") => ~PartialFileLeft

\* The metadata document carries a status other than "OK".
StatusNotOk == playabilityStatus.def /\ playabilityStatus.status # "OK"

\* C1 (as claimed): once the metadata document carries a status other than
\* "OK", extractFormats is never invoked and the run can only end in a
\* StatusNotOk failure carrying the document's reason.
C1_StatusNotOkEndsRun ==
    StatusNotOk =>
        /\ xpc = "off"
        /\ pc \in {"done", "failed"} =>
              /\ pc = "failed"
              /\ failure = Failure("StatusNotOk", playabilityStatus.reason)

\* The order of the stages of main: from each stage, the stage that may
\* come next, or "failed".
StageEdges ==
    {<<"start", "pageFetched">>, <<"pageFetched", "configHarvested">>,
     <<"configHarvested", "playerUrlResolved">>,
     <<"playerUrlResolved", "playerScriptResolved">>,
     <<"playerScriptResolved", "metadataFetched">>,
     <<"metadataFetched", "extracting">>, <<"extracting", "catalogBuilt">>,
     <<"catalogBuilt", "downloading">>, <<"catalogBuilt", "done">>,
     <<"downloading", "done">>}
    \cup {<<st, "failed">> : st \in {"start", "configHarvested", "playerUrlResolved",
                                     "playerScriptResolved", "extracting", "downloading"}}

\* The download met an error: a request, file or response error, or an
\* exception thrown while a redirect was handled.
DownloadError == pc = "downloading" /\ dpc \in {"failed", "stalled", "crashed"}

\* C11, the order: the stage changes only along StageEdges (so nothing
\* follows "failed" or "done"), extractFormats runs only in the catalog
\* stage and downloadFile is called only in the download stage.
C11_StagesInOrder ==
    [][/\ pc' # pc => <<pc, pc'>> \in StageEdges
       /\ xpc' # xpc => (pc' = "extracting" /\ pc \in {"metadataFetched", "extracting"})
       /\ dCall' # dCall => (pc' = "downloading" /\ pc \in {"catalogBuilt", "downloading"})]_vars

\* C11 (as claimed): the stages run in order, and a download error moves
\* the run to "failed" (the process dying of an uncaught exception counts
\* as failed here).
C11_StagesInOrderErrorsFail ==
    /\ C11_StagesInOrder
    /\ DownloadError ~> (pc = "failed" \/ dpc = "crashed")

\* The pieces of the page extractPlayerUrl was given.
PageFragments == OccurrenceFragments(html) \o pagePlayer

ConfigHasPlayerUrl == "PLAYER_JS_URL" \in DOMAIN ytcfg /\ ytcfg["PLAYER_JS_URL"] # ""

HasJsUrl == \E i \in DOMAIN PageFragments : PageFragments[i].kind = "jsUrl"
HasQuotedPlayerJsUrl == \E i \in DOMAIN PageFragments : PageFragments[i].kind = "cfg"
HasBaseJsPath ==
    \E i \in DOMAIN PageFragments :
        ~PageFragments[i].text.esc /\ PageFragments[i].text.shape = "long"
HasPlayerId == \E i \in DOMAIN PageFragments : ~PageFragments[i].text.esc

FirstOf(P(_)) == PageFragments[FirstIndex(PageFragments, P)]

\* The URL text the first matching page pattern matched: the quoted value
\* for the first two patterns, the path ending in base.js for the third.
MatchedUrlText ==
    IF HasJsUrl THEN FirstOf(MatchesJsUrl).text
    ELSE IF HasQuotedPlayerJsUrl THEN FirstOf(MatchesPlayerJsUrl).text
    ELSE PathText(FALSE, FALSE, FirstOf(MatchesBaseJs).text.id, "long", "")

\* A text with \/ and & normalized and the site origin put before a
\* root-relative path.
Normalized(t) ==
    [t EXCEPT !.esc = FALSE, !.amp = IF @ = "" THEN "" ELSE "plain", !.origin = TRUE]

Resolved == pc \in {"playerUrlResolved", "failed"}

\* C12 (as claimed): the player-script URL is the Configuration's when it
\* has one; otherwise the normalized, expanded URL text of the first page
\* pattern that matches; otherwise the URL built from a bare player id; and
\* the call fails exactly when there is none of the three.
C12_PlayerUrlByPriority ==
    Resolved =>
        IF ConfigHasPlayerUrl
        THEN pc # "failed" /\ playerUrl = [source |-> "ytcfg", url |-> OriginPlus(ytcfg["PLAYER_JS_URL"])]
        ELSE IF HasJsUrl \/ HasQuotedPlayerJsUrl \/ HasBaseJsPath
        THEN pc # "failed" /\ playerUrl = [source |-> "pattern", url |-> Normalized(MatchedUrlText)]
        ELSE IF HasPlayerId
        THEN /\ pc # "failed"
             /\ playerUrl = [source |-> "constructed",
                             url |-> PathText(TRUE, FALSE, FirstOf(MatchesPlayerId).text.id, "long", "")]
        ELSE pc = "failed" /\ failure = Failure("NotFound", "Player URL")

\* The order of the sources alone: which source was used, whatever the
\* value taken from it.
C12_SourceByPriority ==
    Resolved =>
        /\ playerUrl.source = "ytcfg" <=> ConfigHasPlayerUrl
        /\ playerUrl.source = "pattern" <=>
              (~ConfigHasPlayerUrl /\ (HasJsUrl \/ HasQuotedPlayerJsUrl \/ HasBaseJsPath))
        /\ playerUrl.source = "constructed" <=>
              (~ConfigHasPlayerUrl /\ ~(HasJsUrl \/ HasQuotedPlayerJsUrl \/ HasBaseJsPath)
               /\ HasPlayerId)
        /\ pc = "failed" <=>
              (~ConfigHasPlayerUrl /\ ~(HasJsUrl \/ HasQuotedPlayerJsUrl \/ HasBaseJsPath)
               /\ ~HasPlayerId)

\* The body of the final response as far as it was received: dChunks chunks
\* of the innermost call.
FinalBody == [i \in 1..dChunks |-> dCall]

\* C13 (as claimed): once downloadFile's promise is resolved, the output
\* path names a file that holds exactly the body of the final response,
\* under every order of the streams' opens and closes and the removal.
C13_FinalBodyOnly ==
    dPromise = "resolved" => (dEntry # 0 /\ dInodes[dEntry] = FinalBody)

====
